---- MODULE Spec2Model ----
(***************************************************************************)
(* Write-query lowering of the query compiler:                             *)
(*   query-compiler/src/translate/query/write.rs, translate_write_query.   *)
(*                                                                         *)
(* One lowering call takes a WriteQuery and a QueryBuilder and returns     *)
(* Ok(Expression), Err(TranslateError) or panics.  The builder is a trait  *)
(* object; it is modelled as a scripted double that records nothing by     *)
(* itself: every call the lowering makes is appended to `calls`.           *)
(*                                                                         *)
(* Option<T> is a sequence of length 0 (None) or 1 (Some), Vec<T> is a     *)
(* sequence.                                                               *)
(***************************************************************************)
EXTENDS Naturals, Sequences, FiniteSets

VARIABLES query, builder, calls, result, pc

vars == <<query, builder, calls, result, pc>>

\* ---------------------------------------------------------------- bounds

\* longest statement list a batching builder operation returns
MaxStmts == 2
\* most child handles (Vec<SelectionResult>) of a connect / disconnect
MaxChildren == 2

\* ------------------------------------------------------- opaque input data

None == <<>>
Some(x) == <<x>>
Option(S) == {None} \cup {Some(x) : x \in S}

SeqUpTo(S, n) == UNION {[1..k -> S] : k \in 0..n}

Models == {"User", "Post"}
Filters == {"id=1", "age>3"}
\* WriteArgs: the set of written fields; is_empty() is args = {}
WriteArgsSet == {{}, {"name"}}
\* Vec<WriteArgs> of create-many
ArgRows == {<<{"name"}>>, <<{"name"}, {"name"}>>}
FieldSelections == {[fields |-> <<"id">>], [fields |-> <<"id", "name">>]}
Limits == Option({3})
RelationFields == {"posts", "tags"}
RawInputs == {"SELECT 1", "DELETE"}
RawKinds == {"sql", "mongo"}
\* a SelectionResult is a Vec<(SelectedField, PrismaValue)>
SelectionResults == {<<>>, <<<<"id", "v1">>>>, <<<<"id", "v1">>, <<"id", "v2">>>>}
RecordFilters == [filter : Filters, selectors : Option({<<<<"id", "v1">>>>})]

StmtIds == {"s1", "s2"}
ErrCodes == {"e1", "e2"}

BuilderOps == {"build_create_record", "build_inserts", "build_updates",
               "build_update", "build_get_records", "build_upsert",
               "build_raw", "build_delete", "build_deletes",
               "build_m2m_connect", "build_m2m_disconnect"}

\* ------------------------------------------------------------ expressions

\* Expression::Query / Execute / Unique / Concat / Sum
Query(stmt) == [node |-> "Query", stmt |-> stmt]
Execute(stmt) == [node |-> "Execute", stmt |-> stmt]
Unique(child) == [node |-> "Unique", child |-> child]
Concat(children) == [node |-> "Concat", children |-> children]
Sum(children) == [node |-> "Sum", children |-> children]

\* TranslateError::QueryBuildFailure(e)
QueryBuildFailure(e) == [variant |-> "QueryBuildFailure", source |-> e]

\* What one lowering call comes to: the builder calls it made, in order, and
\* Ok(expression), Err(translate error) or a panic with its message.
Ok(e) == [kind |-> "Ok", value |-> e]
Err(te) == [kind |-> "Err", value |-> te]
\* a panic (expect, todo!): its message and the value it formats
Panic(msg, about) == [kind |-> "Panic", value |-> [msg |-> msg, about |-> about]]
\* before the call has returned
NoResult == [kind |-> "None", value |-> [msg |-> "", about |-> <<>>]]
Outcome(cs, r) == [calls |-> cs, result |-> r]

\* ------------------------------------------------------ the query builder

\* The script of a builder double: the operation that fails (if any) and the
\* error it fails with, the statement a single-statement operation returns,
\* and the ordered statement list a batching operation returns.
Builders == [failing : Option(BuilderOps), err : ErrCodes,
             stmt : StmtIds, batch : SeqUpTo(StmtIds, MaxStmts)]

\* A statement names the operation that built it and the scripted id.
Stmt(op, id) == [by |-> op, id |-> id]
BatchOf(op, ids) == [i \in 1..Len(ids) |-> Stmt(op, ids[i])]

\* One call of a single-statement builder operation: the call as the builder
\* saw it, and Ok(statement) or Err(builder error).
BuildOne(b, op, args) ==
    [call |-> [op |-> op, args |-> args],
     ok |-> b.failing # Some(op),
     value |-> IF b.failing = Some(op) THEN [by |-> op, code |-> b.err]
               ELSE Stmt(op, b.stmt)]

\* One call of a batching builder operation: Ok(statement list) or Err.
BuildMany(b, op, args) ==
    [call |-> [op |-> op, args |-> args],
     ok |-> b.failing # Some(op),
     value |-> IF b.failing = Some(op) THEN [by |-> op, code |-> b.err]
               ELSE [stmts |-> BatchOf(op, b.batch)]]

build_create_record(b, model, args, selected_fields) ==
    BuildOne(b, "build_create_record", <<model, args, selected_fields>>)
build_inserts(b, model, args, skip_duplicates, selected_fields) ==
    BuildMany(b, "build_inserts", <<model, args, skip_duplicates, selected_fields>>)
build_updates(b, model, record_filter, args, selected_fields, limit) ==
    BuildMany(b, "build_updates", <<model, record_filter, args, selected_fields, limit>>)
build_update(b, model, record_filter, args, selected_fields) ==
    BuildOne(b, "build_update", <<model, record_filter, args, selected_fields>>)
build_get_records(b, model, query_arguments, selected_fields) ==
    BuildOne(b, "build_get_records", <<model, query_arguments, selected_fields>>)
build_upsert(b, model, filter, create, update, selected_fields, unique_constraints) ==
    BuildOne(b, "build_upsert",
             <<model, filter, create, update, selected_fields, unique_constraints>>)
build_raw(b, model, inputs, query_type) ==
    BuildOne(b, "build_raw", <<model, inputs, query_type>>)
build_delete(b, model, record_filter, selected_fields) ==
    BuildOne(b, "build_delete", <<model, record_filter, selected_fields>>)
build_deletes(b, model, record_filter, limit) ==
    BuildMany(b, "build_deletes", <<model, record_filter, limit>>)
build_m2m_connect(b, relation_field, parent, child) ==
    BuildOne(b, "build_m2m_connect", <<relation_field, parent, child>>)
build_m2m_disconnect(b, relation_field, parent_id, child_ids) ==
    BuildOne(b, "build_m2m_disconnect", <<relation_field, parent_id, child_ids>>)

\* QueryArguments::from((model, filter)): the filter set, no row limit
QueryArgumentsFrom(model, filter) ==
    [model |-> model, filter |-> Some(filter), take |-> None]
\* QueryArguments::with_take; Take::Some(n) is Some(n), Take::All is None
with_take(qa, take) == [qa EXCEPT !.take = take]

\* ------------------------------------------------------------- iterators

\* .into_iter().map(Expression::Query).collect::<Vec<_>>()
MapQuery(stmts) == [i \in 1..Len(stmts) |-> Query(stmts[i])]
\* .into_iter().map(Expression::Execute).collect::<Vec<_>>()
MapExecute(stmts) == [i \in 1..Len(stmts) |-> Execute(stmts[i])]

RECURSIVE FlatMap(_)
\* .into_iter().flat_map(IntoIterator::into_iter): the items of every
\* element of an Option / Vec of SelectionResults, in order
FlatMap(ss) == IF ss = <<>> THEN <<>> ELSE Head(ss) \o FlatMap(Tail(ss))

\* Itertools::exactly_one: Ok(the item) when there is exactly one
exactly_one(items) ==
    [ok |-> Len(items) = 1,
     value |-> IF Len(items) = 1 THEN items[1] ELSE <<"", "">>]

\* ----------------------------------------------- translate_write_query arms

\* `.map_err(TranslateError::QueryBuildFailure)?` on a builder call r that
\* came after the calls cs: the early return of the whole function
Propagate(cs, r) == Outcome(Append(cs, r.call), Err(QueryBuildFailure(r.value)))

\* CreateRecord without the Unique wrapper
CreateRecordBare(cr, b) ==
    LET r == build_create_record(b, cr.model, cr.args, cr.selected_fields) IN
    IF ~r.ok THEN Propagate(<<>>, r)
    ELSE Outcome(<<r.call>>, Ok(Query(r.value)))

CreateRecord(cr, b) ==
    LET r == build_create_record(b, cr.model, cr.args, cr.selected_fields) IN
    IF ~r.ok THEN Propagate(<<>>, r)
    ELSE Outcome(<<r.call>>, Ok(Unique(Query(r.value))))

CreateManyRecords(cmr, b) ==
    IF cmr.selected_fields # None
    THEN LET selected_fields == cmr.selected_fields[1]
             r == build_inserts(b, cmr.model, cmr.args, cmr.skip_duplicates,
                                Some(selected_fields.fields))
         IN  IF ~r.ok THEN Propagate(<<>>, r)
             ELSE Outcome(<<r.call>>, Ok(Concat(MapQuery(r.value.stmts))))
    ELSE LET r == build_inserts(b, cmr.model, cmr.args, cmr.skip_duplicates, None)
         IN  IF ~r.ok THEN Propagate(<<>>, r)
             ELSE Outcome(<<r.call>>, Ok(Sum(MapExecute(r.value.stmts))))

\* UpdateManyRecords with the aggregate chosen the wrong way round
UpdateManyRecordsSwapped(q, b) ==
    LET projection == IF q.selected_fields = None THEN None
                      ELSE Some(q.selected_fields[1].fields)
        r == build_updates(b, q.model, q.record_filter, q.args, projection, q.limit)
    IN  IF ~r.ok THEN Propagate(<<>>, r)
        ELSE LET updates == IF projection # None
                            THEN MapQuery(r.value.stmts)
                            ELSE MapExecute(r.value.stmts)
             IN  Outcome(<<r.call>>,
                         Ok(IF projection = None THEN Concat(updates)
                            ELSE Sum(updates)))

UpdateManyRecords(q, b) ==
    LET projection == IF q.selected_fields = None THEN None
                      ELSE Some(q.selected_fields[1].fields)
        r == build_updates(b, q.model, q.record_filter, q.args, projection, q.limit)
    IN  IF ~r.ok THEN Propagate(<<>>, r)
        ELSE LET updates == IF projection # None
                            THEN MapQuery(r.value.stmts)
                            ELSE MapExecute(r.value.stmts)
             IN  Outcome(<<r.call>>,
                         Ok(IF projection # None THEN Concat(updates)
                            ELSE Sum(updates)))

\* UpdateRecord::WithSelection without the read shortcut for empty args
UpdateRecordAlwaysUpdates(q, b) ==
    LET r == build_update(b, q.model, q.record_filter, q.args,
                          Some(q.selected_fields))
    IN  IF ~r.ok THEN Propagate(<<>>, r)
        ELSE Outcome(<<r.call>>, Ok(Unique(Query(r.value))))

UpdateRecordWithSelection(q, b) ==
    LET r == IF q.args = {}
             THEN LET args == with_take(
                                  QueryArgumentsFrom(q.model, q.record_filter.filter),
                                  Some(1))
                  IN  build_get_records(b, q.model, args, q.selected_fields)
             ELSE build_update(b, q.model, q.record_filter, q.args,
                               Some(q.selected_fields))
    IN  IF ~r.ok THEN Propagate(<<>>, r)
        ELSE Outcome(<<r.call>>, Ok(Unique(Query(r.value))))

\* Upsert that, when build_upsert fails, falls back to a plain update
UpsertWithFallback(upsert, b) ==
    LET r == build_upsert(b, upsert.model, upsert.filter, upsert.create,
                          upsert.update, upsert.selected_fields,
                          upsert.unique_constraints)
        f == build_update(b, upsert.model,
                          [filter |-> upsert.filter, selectors |-> None],
                          upsert.update, Some(upsert.selected_fields))
    IN  IF r.ok THEN Outcome(<<r.call>>, Ok(Unique(Query(r.value))))
        ELSE IF ~f.ok THEN Propagate(<<r.call>>, f)
        ELSE Outcome(<<r.call, f.call>>, Ok(Unique(Query(f.value))))

Upsert(upsert, b) ==
    LET r == build_upsert(b, upsert.model, upsert.filter, upsert.create,
                          upsert.update, upsert.selected_fields,
                          upsert.unique_constraints)
    IN  IF ~r.ok THEN Propagate(<<>>, r)
        ELSE Outcome(<<r.call>>, Ok(Unique(Query(r.value))))

QueryRaw(q, b) ==
    LET r == build_raw(b, q.model, q.inputs, q.query_type) IN
    IF ~r.ok THEN Propagate(<<>>, r)
    ELSE Outcome(<<r.call>>, Ok(Query(r.value)))

\* ExecuteRaw wrapped like QueryRaw
ExecuteRawAsQuery(q, b) ==
    LET r == build_raw(b, q.model, q.inputs, q.query_type) IN
    IF ~r.ok THEN Propagate(<<>>, r)
    ELSE Outcome(<<r.call>>, Ok(Query(r.value)))

ExecuteRaw(q, b) ==
    LET r == build_raw(b, q.model, q.inputs, q.query_type) IN
    IF ~r.ok THEN Propagate(<<>>, r)
    ELSE Outcome(<<r.call>>, Ok(Execute(r.value)))

\* DeleteRecord that always reads the removed row back
DeleteRecordAlwaysUnique(q, b) ==
    LET selected_fields == IF q.selected_fields = None THEN None
                           ELSE Some(q.selected_fields[1].fields)
        r == build_delete(b, q.model, q.record_filter, selected_fields)
    IN  IF ~r.ok THEN Propagate(<<>>, r)
        ELSE Outcome(<<r.call>>, Ok(Unique(Query(r.value))))

DeleteRecord(q, b) ==
    LET selected_fields == IF q.selected_fields = None THEN None
                           ELSE Some(q.selected_fields[1].fields)
        r == build_delete(b, q.model, q.record_filter, selected_fields)
    IN  IF ~r.ok THEN Propagate(<<>>, r)
        ELSE Outcome(<<r.call>>,
                     Ok(IF selected_fields # None THEN Unique(Query(r.value))
                        ELSE Execute(r.value)))

\* DeleteManyRecords aggregated as row data
DeleteManyRecordsAsConcat(q, b) ==
    LET r == build_deletes(b, q.model, q.record_filter, q.limit) IN
    IF ~r.ok THEN Propagate(<<>>, r)
    ELSE Outcome(<<r.call>>, Ok(Concat(MapQuery(r.value.stmts))))

DeleteManyRecords(q, b) ==
    LET r == build_deletes(b, q.model, q.record_filter, q.limit) IN
    IF ~r.ok THEN Propagate(<<>>, r)
    ELSE Outcome(<<r.call>>, Ok(Sum(MapExecute(r.value.stmts))))

ParentExpect == "query compiler connects should never have more than one parent expression"
ChildExpect == "query compiler connects should never have more than one child expression"

\* ConnectRecords that takes the first resolved value (.next().expect(..))
\* of each handle instead of requiring exactly one
ConnectRecordsFirst(q, b) ==
    LET parents == FlatMap(q.parent_id)
        children == FlatMap(q.child_ids)
    IN  IF parents = <<>> THEN Outcome(<<>>, Panic(ParentExpect, parents))
        ELSE IF children = <<>> THEN Outcome(<<>>, Panic(ChildExpect, children))
        ELSE LET r == build_m2m_connect(b, q.relation_field,
                                        parents[1][2], children[1][2])
             IN  IF ~r.ok THEN Propagate(<<>>, r)
                 ELSE Outcome(<<r.call>>, Ok(Execute(r.value)))

ConnectRecords(q, b) ==
    LET parents == FlatMap(q.parent_id)
        children == FlatMap(q.child_ids)
        parent == exactly_one(parents)
        child == exactly_one(children)
    IN  IF ~parent.ok THEN Outcome(<<>>, Panic(ParentExpect, parents))
        ELSE IF ~child.ok THEN Outcome(<<>>, Panic(ChildExpect, children))
        ELSE LET r == build_m2m_connect(b, q.relation_field,
                                        parent.value[2], child.value[2])
             IN  IF ~r.ok THEN Propagate(<<>>, r)
                 ELSE Outcome(<<r.call>>, Ok(Execute(r.value)))

DisconnectExpect == "should have parent ID for disconnect"

RECURSIVE DisconnectEach(_, _, _, _)
\* one build_m2m_disconnect call per child handle, stopping at a failure
DisconnectEach(q, b, i, acc) ==
    IF i > Len(q.child_ids) THEN Outcome(acc.calls, Ok(Sum(acc.nodes)))
    ELSE LET r == build_m2m_disconnect(b, q.relation_field, q.parent_id[1],
                                       <<q.child_ids[i]>>)
         IN  IF ~r.ok THEN Propagate(acc.calls, r)
             ELSE DisconnectEach(q, b, i + 1,
                                 [calls |-> Append(acc.calls, r.call),
                                  nodes |-> Append(acc.nodes, Execute(r.value))])

\* DisconnectRecords lowered child by child into a Sum
DisconnectRecordsPerChild(q, b) ==
    IF q.parent_id = None THEN Outcome(<<>>, Panic(DisconnectExpect, None))
    ELSE DisconnectEach(q, b, 1, [calls |-> <<>>, nodes |-> <<>>])

DisconnectRecords(q, b) ==
    IF q.parent_id = None THEN Outcome(<<>>, Panic(DisconnectExpect, None))
    ELSE LET parent_id == q.parent_id[1]
             r == build_m2m_disconnect(b, q.relation_field, parent_id, q.child_ids)
         IN  IF ~r.ok THEN Propagate(<<>>, r)
             ELSE Outcome(<<r.call>>, Ok(Execute(r.value)))

\* `other => todo!("{other:?}")`: a panic that formats the variant
Todo(other, b) ==
    Outcome(<<>>, Panic("not yet implemented", <<other.tag, other.variant>>))

translate_write_query(q, b) ==
    CASE q.tag = "CreateRecord" -> CreateRecord(q, b)
      [] q.tag = "CreateManyRecords" -> CreateManyRecords(q, b)
      [] q.tag = "UpdateManyRecords" -> UpdateManyRecords(q, b)
      [] q.tag = "UpdateRecord" /\ q.variant = "WithSelection" ->
             UpdateRecordWithSelection(q, b)
      [] q.tag = "Upsert" -> Upsert(q, b)
      [] q.tag = "QueryRaw" -> QueryRaw(q, b)
      [] q.tag = "ExecuteRaw" -> ExecuteRaw(q, b)
      [] q.tag = "DeleteRecord" -> DeleteRecord(q, b)
      [] q.tag = "DeleteManyRecords" -> DeleteManyRecords(q, b)
      [] q.tag = "ConnectRecords" -> ConnectRecords(q, b)
      [] q.tag = "DisconnectRecords" -> DisconnectRecords(q, b)
      [] OTHER -> Todo(q, b)

\* ------------------------------------------------------ the write queries

CreateRecordQueries ==
    [tag : {"CreateRecord"}, model : Models, args : WriteArgsSet,
     selected_fields : FieldSelections]
CreateManyRecordsQueries ==
    [tag : {"CreateManyRecords"}, model : Models, args : ArgRows,
     skip_duplicates : BOOLEAN, selected_fields : Option(FieldSelections)]
UpdateManyRecordsQueries ==
    [tag : {"UpdateManyRecords"}, model : Models, record_filter : RecordFilters,
     args : WriteArgsSet, selected_fields : Option(FieldSelections),
     limit : Limits]
\* UpdateRecord::WithSelection and UpdateRecord::WithoutSelection
UpdateRecordQueries ==
    [tag : {"UpdateRecord"}, variant : {"WithSelection", "WithoutSelection"},
     model : Models, record_filter : RecordFilters, args : WriteArgsSet,
     selected_fields : FieldSelections]
UpsertQueries ==
    [tag : {"Upsert"}, model : Models, filter : Filters, create : WriteArgsSet,
     update : WriteArgsSet, selected_fields : FieldSelections,
     unique_constraints : {<<"id">>}]
RawQueries ==
    [tag : {"QueryRaw", "ExecuteRaw"}, model : Option(Models),
     inputs : RawInputs, query_type : RawKinds]
DeleteRecordQueries ==
    [tag : {"DeleteRecord"}, model : Models, record_filter : RecordFilters,
     selected_fields : Option(FieldSelections)]
DeleteManyRecordsQueries ==
    [tag : {"DeleteManyRecords"}, model : Models, record_filter : RecordFilters,
     limit : Limits]
ConnectRecordsQueries ==
    [tag : {"ConnectRecords"}, parent_id : Option(SelectionResults),
     child_ids : SeqUpTo(SelectionResults, MaxChildren),
     relation_field : RelationFields]
DisconnectRecordsQueries ==
    [tag : {"DisconnectRecords"}, parent_id : Option(SelectionResults),
     child_ids : SeqUpTo(SelectionResults, MaxChildren),
     relation_field : RelationFields]

WriteQueries ==
    CreateRecordQueries \cup CreateManyRecordsQueries \cup UpdateManyRecordsQueries
    \cup UpdateRecordQueries \cup UpsertQueries \cup RawQueries
    \cup DeleteRecordQueries \cup DeleteManyRecordsQueries
    \cup ConnectRecordsQueries \cup DisconnectRecordsQueries

\* ------------------------------------------------------- the state machine

\* A caller holds one write query and one builder and has not yet called.
Init ==
    /\ query \in WriteQueries
    /\ builder \in Builders
    /\ calls = <<>>
    /\ result = NoResult
    /\ pc = "start"

\* The call translate_write_query(query, builder), from entry to return.
Lower ==
    LET o == translate_write_query(query, builder) IN
    /\ pc = "start"
    /\ calls' = o.calls
    /\ result' = o.result
    /\ pc' = "done"
    /\ UNCHANGED <<query, builder>>

TranslateCreateRecord == query.tag = "CreateRecord" /\ Lower
TranslateCreateManyRecords == query.tag = "CreateManyRecords" /\ Lower
TranslateUpdateManyRecords == query.tag = "UpdateManyRecords" /\ Lower
TranslateUpdateRecordWithSelection ==
    query.tag = "UpdateRecord" /\ query.variant = "WithSelection" /\ Lower
TranslateUpsert == query.tag = "Upsert" /\ Lower
TranslateQueryRaw == query.tag = "QueryRaw" /\ Lower
TranslateExecuteRaw == query.tag = "ExecuteRaw" /\ Lower
TranslateDeleteRecord == query.tag = "DeleteRecord" /\ Lower
TranslateDeleteManyRecords == query.tag = "DeleteManyRecords" /\ Lower
TranslateConnectRecords == query.tag = "ConnectRecords" /\ Lower
TranslateDisconnectRecords == query.tag = "DisconnectRecords" /\ Lower
TranslateOther ==
    query.tag = "UpdateRecord" /\ query.variant # "WithSelection" /\ Lower

Next ==
    \/ TranslateCreateRecord
    \/ TranslateCreateManyRecords
    \/ TranslateUpdateManyRecords
    \/ TranslateUpdateRecordWithSelection
    \/ TranslateUpsert
    \/ TranslateQueryRaw
    \/ TranslateExecuteRaw
    \/ TranslateDeleteRecord
    \/ TranslateDeleteManyRecords
    \/ TranslateConnectRecords
    \/ TranslateDisconnectRecords
    \/ TranslateOther

Spec == Init /\ [][Next]_vars

\* ------------------------------------------------------------ properties

\* the lowering call has returned (or panicked)
Returned == pc = "done"

\* the builder's scripted answer to operation op is a success
Succeeds(op) == builder.failing # Some(op)
\* the statement the builder returns from single-statement operation op
ReturnedStmt(op) == [by |-> op, id |-> builder.stmt]
\* the i-th statement the builder returns from batching operation op
ReturnedBatchStmt(op, i) == [by |-> op, id |-> builder.batch[i]]

\* the tree is agg(children), one child per returned statement of op, the
\* i-th child the leaf wrapping the i-th statement
IsAggregateOf(tree, agg, leaf, op) ==
    /\ tree.node = agg
    /\ DOMAIN tree = {"node", "children"}
    /\ Len(tree.children) = Len(builder.batch)
    /\ \A i \in 1..Len(builder.batch) :
           tree.children[i] = [node |-> leaf, stmt |-> ReturnedBatchStmt(op, i)]

\* the tree is Unique(Query(stmt))
IsUniqueQuery(tree, stmt) ==
    /\ tree.node = "Unique"
    /\ tree.child = [node |-> "Query", stmt |-> stmt]

\* exactly one builder call was made, to op with these arguments
OneCall(op, args) ==
    /\ Len(calls) = 1
    /\ calls[1].op = op
    /\ calls[1].args = args

\* C1: for CreateManyRecords and UpdateManyRecords, when the batching
\* builder call succeeds with statements s1..sn the result is
\* Concat([Query(s1)..Query(sn)]) if a projection was requested and
\* Sum([Execute(s1)..Execute(sn)]) otherwise: n children, the i-th wrapping
\* the i-th statement.
C1_BatchedCreateUpdateShape ==
    \A t \in {"CreateManyRecords", "UpdateManyRecords"} :
        LET op == IF t = "CreateManyRecords" THEN "build_inserts"
                  ELSE "build_updates"
        IN  (Returned /\ query.tag = t /\ Succeeds(op)) =>
                /\ result.kind = "Ok"
                /\ IF query.selected_fields # None
                   THEN IsAggregateOf(result.value, "Concat", "Query", op)
                   ELSE IsAggregateOf(result.value, "Sum", "Execute", op)

\* C1 witness: an update-many with a projection whose builder returned the
\* two statements s2, s1 came out as Concat([Query(s2), Query(s1)])
C1_Witness ==
    /\ Returned
    /\ query.tag = "UpdateManyRecords"
    /\ query.selected_fields # None
    /\ builder.batch = <<"s2", "s1">>
    /\ result.kind = "Ok"
    /\ result.value.node = "Concat"
    /\ Len(result.value.children) = 2
    /\ result.value.children[1].stmt.id = "s2"
    /\ result.value.children[2].stmt.id = "s1"

\* the single-record operations and the builder operation each one uses
SingleRecordOp ==
    CASE query.tag = "CreateRecord" -> "build_create_record"
      [] query.tag = "UpdateRecord" /\ query.variant = "WithSelection" ->
             IF query.args = {} THEN "build_get_records" ELSE "build_update"
      [] query.tag = "Upsert" -> "build_upsert"
      [] query.tag = "DeleteRecord" /\ query.selected_fields # None -> "build_delete"
      [] OTHER -> "none"

\* C2: for CreateRecord, UpdateRecord::WithSelection, Upsert and DeleteRecord
\* with a projection, a successful lowering made exactly one builder call
\* and returned Unique(Query(stmt)) with stmt the statement of that call.
C2_SingleRecordIsUniqueQuery ==
    (Returned /\ SingleRecordOp # "none" /\ result.kind = "Ok") =>
        /\ Len(calls) = 1
        /\ calls[1].op = SingleRecordOp
        /\ IsUniqueQuery(result.value, ReturnedStmt(calls[1].op))

\* C2 witness: a create lowered to Unique(Query(stmt))
C2_Witness ==
    /\ Returned
    /\ query.tag = "CreateRecord"
    /\ result.kind = "Ok"
    /\ result.value.node = "Unique"
    /\ result.value.child.node = "Query"
    /\ result.value.child.stmt.by = "build_create_record"

\* C3: UpdateRecord::WithSelection with empty args makes no build_update
\* call and exactly one build_get_records call, with query arguments made of
\* the record filter's filter and take = 1, and a success is
\* Unique(Query(read_stmt)); with non-empty args it makes exactly one
\* build_update call, with the projection, and no build_get_records call.
C3_EmptyUpdateIsRead ==
    (Returned /\ query.tag = "UpdateRecord" /\ query.variant = "WithSelection") =>
        IF query.args = {}
        THEN /\ OneCall("build_get_records",
                        <<query.model,
                          [model |-> query.model,
                           filter |-> <<query.record_filter.filter>>,
                           take |-> <<1>>],
                          query.selected_fields>>)
             /\ Succeeds("build_get_records") =>
                    /\ result.kind = "Ok"
                    /\ IsUniqueQuery(result.value, ReturnedStmt("build_get_records"))
        ELSE OneCall("build_update",
                     <<query.model, query.record_filter, query.args,
                       <<query.selected_fields>>>>)

\* C3 witness: an update with empty args and a record filter that carries
\* selectors returned the read statement
C3_Witness ==
    /\ Returned
    /\ query.tag = "UpdateRecord"
    /\ query.variant = "WithSelection"
    /\ query.args = {}
    /\ query.record_filter.selectors # None
    /\ result.kind = "Ok"
    /\ result.value.child.stmt.by = "build_get_records"

\* how many resolved values a handle (Option or Vec of SelectionResults) holds
Resolved(handle) ==
    Cardinality(UNION {{<<i, j>> : j \in 1..Len(handle[i])} :
                           i \in 1..Len(handle)})

\* C4: a ConnectRecords whose parent or child handle does not hold exactly
\* one resolved value fails with no builder call made; the parent is checked
\* before the child, and build_m2m_connect is called only when both hold
\* exactly one value, with those two values.
C4_ConnectNeedsSingletons ==
    (Returned /\ query.tag = "ConnectRecords") =>
        IF Resolved(query.parent_id) # 1
        THEN /\ result.kind = "Panic"
             /\ result.value.msg = ParentExpect
             /\ calls = <<>>
        ELSE IF Resolved(query.child_ids) # 1
        THEN /\ result.kind = "Panic"
             /\ result.value.msg = ChildExpect
             /\ calls = <<>>
        ELSE /\ result.kind # "Panic"
             /\ Len(calls) = 1
             /\ calls[1].op = "build_m2m_connect"
             /\ calls[1].args[1] = query.relation_field
             /\ calls[1].args[2] = query.parent_id[1][1][2]
             /\ \E i \in 1..Len(query.child_ids) :
                    /\ Len(query.child_ids[i]) = 1
                    /\ calls[1].args[3] = query.child_ids[i][1][2]

\* C4 witness: a connect whose parent handle resolves to two values (and
\* whose child handle is fine) failed
C4_Witness ==
    /\ Returned
    /\ query.tag = "ConnectRecords"
    /\ Resolved(query.parent_id) = 2
    /\ Resolved(query.child_ids) = 1
    /\ result.kind = "Panic"

\* C5: when a builder call fails with e the lowering returns
\* Err(QueryBuildFailure(e)) and the failing call is the last one made.
C5_BuilderFailurePropagates ==
    Returned =>
        \A i \in 1..Len(calls) :
            builder.failing = Some(calls[i].op) =>
                /\ i = Len(calls)
                /\ result = [kind |-> "Err",
                             value |-> [variant |-> "QueryBuildFailure",
                                        source |-> [by |-> calls[i].op,
                                                    code |-> builder.err]]]

\* C5 witness: an upsert whose build_upsert call failed with e2
C5_Witness ==
    /\ Returned
    /\ query.tag = "Upsert"
    /\ builder.failing = <<"build_upsert">>
    /\ builder.err = "e2"
    /\ Len(calls) = 1
    /\ result.kind = "Err"

\* a variant with no translation rule
Unsupported == query.tag = "UpdateRecord" /\ query.variant # "WithSelection"

\* C6: an unsupported variant comes back as an "unsupported operation"
\* failure value (an Err, not a panic) and no builder call is made.
C6_UnsupportedIsFailureValue ==
    (Returned /\ Unsupported) => (result.kind = "Err" /\ calls = <<>>)

\* C7: DisconnectRecords with no parent handle fails with no builder call;
\* with a parent handle it makes exactly one build_m2m_disconnect call, with
\* the relation field, the parent and all the child handles, and a success
\* is the single node Execute(stmt).
C7_DisconnectOneStatement ==
    (Returned /\ query.tag = "DisconnectRecords") =>
        IF query.parent_id = <<>>
        THEN result.kind = "Panic" /\ calls = <<>>
        ELSE /\ OneCall("build_m2m_disconnect",
                        <<query.relation_field, query.parent_id[1], query.child_ids>>)
             /\ Succeeds("build_m2m_disconnect") =>
                    result = [kind |-> "Ok",
                              value |-> [node |-> "Execute",
                                         stmt |-> ReturnedStmt("build_m2m_disconnect")]]

\* C7 witness: a disconnect of two child handles came out as one Execute
C7_Witness ==
    /\ Returned
    /\ query.tag = "DisconnectRecords"
    /\ Len(query.child_ids) = 2
    /\ result.kind = "Ok"
    /\ result.value.node = "Execute"

\* C8: for DeleteManyRecords, when build_deletes succeeds with s1..sn the
\* result is Sum([Execute(s1)..Execute(sn)]) in that order, for every record
\* filter and limit.
C8_DeleteManyIsSum ==
    (Returned /\ query.tag = "DeleteManyRecords" /\ Succeeds("build_deletes")) =>
        /\ result.kind = "Ok"
        /\ IsAggregateOf(result.value, "Sum", "Execute", "build_deletes")

\* C8 witness: a delete-many with a limit whose builder returned s2, s1
C8_Witness ==
    /\ Returned
    /\ query.tag = "DeleteManyRecords"
    /\ query.limit # None
    /\ builder.batch = <<"s2", "s1">>
    /\ result.kind = "Ok"
    /\ result.value.node = "Sum"
    /\ Len(result.value.children) = 2

\* C9: for DeleteRecord without a projection, the one build_delete call is
\* made with no projection and a success is the bare node Execute(stmt).
C9_DeleteWithoutProjectionIsExecute ==
    (Returned /\ query.tag = "DeleteRecord" /\ query.selected_fields = <<>>) =>
        /\ OneCall("build_delete", <<query.model, query.record_filter, <<>>>>)
        /\ Succeeds("build_delete") =>
               result = [kind |-> "Ok",
                         value |-> [node |-> "Execute",
                                    stmt |-> ReturnedStmt("build_delete")]]

\* C9 witness: a delete without projection came out as Execute
C9_Witness ==
    /\ Returned
    /\ query.tag = "DeleteRecord"
    /\ query.selected_fields = <<>>
    /\ result.kind = "Ok"
    /\ result.value.node = "Execute"

\* C10: a QueryRaw and an ExecuteRaw with the same model, inputs and raw
\* kind each make the one call build_raw(model, inputs, kind), and on
\* success the first is Query(stmt), the second Execute(stmt), same stmt.
C10_RawDiffersOnlyInWrapping ==
    (Returned /\ query.tag \in {"QueryRaw", "ExecuteRaw"}) =>
        LET asQuery == translate_write_query([query EXCEPT !.tag = "QueryRaw"], builder)
            asExecute == translate_write_query([query EXCEPT !.tag = "ExecuteRaw"], builder)
        IN  /\ OneCall("build_raw", <<query.model, query.inputs, query.query_type>>)
            /\ asQuery.calls = calls
            /\ asExecute.calls = calls
            /\ result = IF query.tag = "QueryRaw" THEN asQuery.result
                        ELSE asExecute.result
            /\ Succeeds("build_raw") =>
                   /\ asQuery.result =
                          [kind |-> "Ok",
                           value |-> [node |-> "Query",
                                      stmt |-> ReturnedStmt("build_raw")]]
                   /\ asExecute.result =
                          [kind |-> "Ok",
                           value |-> [node |-> "Execute",
                                      stmt |-> ReturnedStmt("build_raw")]]
            /\ ~Succeeds("build_raw") => asQuery.result = asExecute.result

\* C10 witness: an ExecuteRaw with no model came out as Execute(stmt)
C10_Witness ==
    /\ Returned
    /\ query.tag = "ExecuteRaw"
    /\ query.model = <<>>
    /\ result.kind = "Ok"
    /\ result.value.node = "Execute"

====
